---- MODULE Spec2Model ----
(***************************************************************************)
(* A model of nPoint.cu: the host program main() (device selection,        *)
(* allocation, the simulation loop, snapshot output, deallocation) and the *)
(* device kernel incrementPoint(), whose threads share the device clock t. *)
(*                                                                         *)
(* Abstractions:                                                           *)
(*  - the clock t is counted in units of dt (t = 3 means 3 * dt);          *)
(*  - a capability score major + minor * 0.1 is counted in tenths;         *)
(*  - a position (x, y) = (r cos theta, r sin theta) is kept as the pair   *)
(*    of sweep indices (jr, jt) with r = jr * dR and theta = jt * dTheta;  *)
(*  - the field value psi of a point is kept as the clock value at which   *)
(*    the kernel evaluated it (the field is a function of the fixed        *)
(*    position and of t only);                                             *)
(*  - thread blocks hold SmallBlock / LargeBlock threads where the source  *)
(*    has 256 / 512.                                                       *)
(***************************************************************************)
EXTENDS Integers, Sequences, FiniteSets, TLC

\* Bounds of the model.
MaxDevices == 2     \* devices enumerated by cudaGetDeviceCount: 0..MaxDevices
MaxMajor   == 2     \* deviceProp.major in 1..MaxMajor
MaxMinor   == 1     \* deviceProp.minor in 0..MaxMinor
MaxPoints  == 2     \* numPoints in 1..MaxPoints
MaxSteps   == 3     \* maxSteps in 0..MaxSteps
MaxSave    == 2     \* saveSteps in 1..MaxSave
SmallBlock == 1     \* threads per block on a device with major < 2 (source: 256)
LargeBlock == 2     \* threads per block on a device with major >= 2 (source: 512)
MaxFaults  == 1     \* device operations that fail in one run

\* The value of a variable that was declared but never assigned.
Indeterminate == -1

VARIABLES
    DEBUG,            \* built with -DDEBUG
    argc,             \* 1: no directory argument, 2: argv[1] is the directory
    numPoints, maxSteps, saveSteps,
    devices,          \* the device list: sequence of [major, minor]
    pc,               \* position of main()
    exitCode,         \* Indeterminate while running
    deviceCount, device, useDevice, cudaVersion, deviceProp,
    currentDevice,    \* the device the CUDA runtime is bound to
    threadsPerBlock, numBlocks,
    cpuAlloc, gpuAlloc,             \* "none", "live", "failed", "freed"
    cpuPointArray, gpuPointArray,   \* [0..numPoints-1 -> point]
    cpuOOB, gpuOOB,   \* indices written outside the arrays
    s,                \* loop counter of main
    placeR, placeTheta, placeI,     \* loop state of initializePoints
    t,                \* __device__ float t
    tpc, tsaw, treg,  \* per kernel thread: position, t used for alpha, t loaded by updateTime
    cudaError,        \* the runtime's last error is not cudaSuccess
    faults,           \* device operations that have failed so far
    simTime,          \* float simTime of main
    stdout,           \* records printed
    files,            \* calls of writeDataToFile: [name, data]
    launches,         \* kernel dispatches so far
    cpuFrees, gpuFrees

vars == << DEBUG, argc, numPoints, maxSteps, saveSteps, devices, pc, exitCode,
           deviceCount, device, useDevice, cudaVersion, deviceProp, currentDevice,
           threadsPerBlock, numBlocks, cpuAlloc, gpuAlloc, cpuPointArray,
           gpuPointArray, cpuOOB, gpuOOB, s, placeR, placeTheta, placeI,
           t, tpc, tsaw, treg, cudaError, faults, simTime, stdout, files,
           launches, cpuFrees, gpuFrees >>

inputVars == << DEBUG, argc, numPoints, maxSteps, saveSteps, devices >>
selectVars == << deviceCount, device, useDevice, cudaVersion, deviceProp, currentDevice >>
allocVars == << threadsPerBlock, numBlocks, cpuAlloc, gpuAlloc, cpuFrees, gpuFrees >>
placeVars == << placeR, placeTheta, placeI >>
kernelVars == << t, tpc, tsaw, treg, gpuOOB >>
outVars == << stdout, files >>

----------------------------------------------------------------------------
\* Data

Props == [major : 1..MaxMajor, minor : 0..MaxMinor]

DeviceLists == UNION { [1..n -> Props] : n \in 0..MaxDevices }

\* typedef struct { float x, y, psi; } point, not yet assigned.
NoPoint == [r |-> Indeterminate, theta |-> Indeterminate, psi |-> Indeterminate]

NoProp == [major |-> Indeterminate, minor |-> Indeterminate]

----------------------------------------------------------------------------
Init ==
    /\ DEBUG \in BOOLEAN
    /\ argc \in 1..2
    /\ numPoints \in 1..MaxPoints
    /\ maxSteps \in 0..MaxSteps
    /\ saveSteps \in 1..MaxSave
    /\ devices \in DeviceLists
    /\ pc = "start"
    /\ exitCode = Indeterminate
    /\ deviceCount = Indeterminate
    /\ device = Indeterminate
    /\ useDevice = Indeterminate
    /\ cudaVersion = 0
    /\ deviceProp = NoProp
    /\ currentDevice = 0
    /\ threadsPerBlock = Indeterminate
    /\ numBlocks = Indeterminate
    /\ cpuAlloc = "none"
    /\ gpuAlloc = "none"
    /\ cpuPointArray = << >>
    /\ gpuPointArray = << >>
    /\ cpuOOB = {}
    /\ gpuOOB = {}
    /\ s = Indeterminate
    /\ placeR = Indeterminate
    /\ placeTheta = Indeterminate
    /\ placeI = Indeterminate
    /\ t = 0
    /\ tpc = << >>
    /\ tsaw = << >>
    /\ treg = << >>
    /\ cudaError = FALSE
    /\ faults = 0
    /\ simTime = Indeterminate
    /\ stdout = << >>
    /\ files = << >>
    /\ launches = 0
    /\ cpuFrees = 0
    /\ gpuFrees = 0

----------------------------------------------------------------------------
\* SELECT DEVICE

\* A mutation of NoDevices: the test never succeeds.
NoDevicesNever(count) == count < 0

\* if( deviceCount < 1 )
NoDevices(count) == count < 1

\* cudaGetDeviceCount; "No CUDA-capable devices were detected." and return 1.
GetDeviceCount ==
    /\ pc = "start"
    /\ deviceCount' = Len(devices)
    /\ IF NoDevices(Len(devices))
         THEN /\ stdout' = Append(stdout, [type |-> "nodevice"])
              /\ exitCode' = 1
              /\ pc' = "exited"
              /\ device' = device
         ELSE /\ device' = 0
              /\ pc' = "select"
              /\ UNCHANGED << stdout, exitCode >>
    /\ UNCHANGED << inputVars, useDevice, cudaVersion, deviceProp, currentDevice,
                    allocVars, cpuPointArray, gpuPointArray, cpuOOB, s, placeVars,
                    kernelVars, cudaError, faults, simTime, files, launches >>

\* cudaGetDeviceProperties( &deviceProp, device ): devices are numbered from 0.
GetDeviceProperties(d) == devices[d + 1]

\* computeCapability = deviceProp.major + deviceProp.minor * 0.1, in tenths.
computeCapability(prop) == prop.major * 10 + prop.minor

\* A mutation of BetterDevice: a device of equal capability replaces the choice.
BetterOrEqualDevice(cap, best) == cap >= best

\* if( computeCapability > cudaVersion )
BetterDevice(cap, best) == cap > best

\* One iteration of for( device = 0; device < deviceCount; device++ ).
SelectStep ==
    /\ pc = "select"
    /\ device < deviceCount
    /\ LET prop == GetDeviceProperties(device)
           cap == computeCapability(prop)
       IN  /\ deviceProp' = prop
           /\ IF BetterDevice(cap, cudaVersion)
                THEN /\ cudaVersion' = cap
                     /\ useDevice' = device
                ELSE UNCHANGED << cudaVersion, useDevice >>
    /\ device' = device + 1
    /\ UNCHANGED << inputVars, pc, exitCode, deviceCount, currentDevice, allocVars,
                    cpuPointArray, gpuPointArray, cpuOOB, s, placeVars, kernelVars,
                    cudaError, faults, simTime, outVars, launches >>

\* cudaGetDevice( &device ) stores the device the runtime is bound to in device,
\* whatever device held before the call.
cudaGetDevice(assigned) == currentDevice

\* After the loop: device = useDevice; cudaGetDevice(&device);
\* cudaGetDeviceProperties( &deviceProp, device ); printf( "# Using ..." ).
\* The timeout warning only prints.
BindDevice ==
    /\ pc = "select"
    /\ ~(device < deviceCount)
    /\ LET d == cudaGetDevice(useDevice)
       IN  /\ device' = d
           /\ deviceProp' = GetDeviceProperties(d)
           /\ stdout' = Append(stdout, [type |-> "using", name |-> d, device |-> d,
                                        capability |-> cudaVersion])
    /\ pc' = "alloc"
    /\ UNCHANGED << inputVars, exitCode, deviceCount, useDevice, cudaVersion,
                    currentDevice, allocVars, cpuPointArray, gpuPointArray, cpuOOB,
                    s, placeVars, kernelVars, cudaError, faults, simTime, files, launches >>

----------------------------------------------------------------------------
\* Allocate memory

\* A device operation succeeds (TRUE) or fails (FALSE).
Outcomes == IF faults < MaxFaults THEN BOOLEAN ELSE {TRUE}

\* The count of failed operations after one with this outcome.
Counted(ok) == IF ok THEN faults ELSE faults + 1

\* A copy to or from the device array: it fails when cudaMalloc gave no array.
ArrayCopyOutcomes == IF gpuAlloc = "live" THEN Outcomes ELSE {FALSE}

\* check_cuda_errors: with DEBUG, a pending error prints and exit( -1 ), a
\* process status of 255; without DEBUG the function is empty.
CheckFails == DEBUG /\ cudaError

\* ceil( (float)numPoints / (float)threadsPerBlock )
CeilDiv(a, b) == (a + b - 1) \div b

BlockSize(prop) == IF prop.major >= 2 THEN LargeBlock ELSE SmallBlock

\* A block of numPoints points as malloc or cudaMalloc hands it out, or no
\* block at all when the allocation failed.
Fresh(ok) == IF ok THEN [i \in 0..(numPoints - 1) |-> NoPoint] ELSE << >>

Allocated(ok) == IF ok THEN "live" ELSE "failed"

\* threadsPerBlock, numBlocks, malloc, cudaMalloc, check_cuda_errors, and the
\* initialisation of the loop. The result of malloc is not tested; a failure
\* of cudaMalloc is seen by check_cuda_errors only.
Allocate ==
    /\ pc = "alloc"
    /\ threadsPerBlock' = BlockSize(deviceProp)
    /\ numBlocks' = CeilDiv(numPoints, BlockSize(deviceProp))
    /\ \E hostOk \in BOOLEAN : \E devOk \in Outcomes :
         /\ cpuAlloc' = Allocated(hostOk)
         /\ cpuPointArray' = Fresh(hostOk)
         /\ gpuAlloc' = Allocated(devOk)
         /\ gpuPointArray' = Fresh(devOk)
         /\ faults' = Counted(devOk)
         /\ IF DEBUG /\ (cudaError \/ ~devOk)   \* check_cuda_errors
              THEN /\ stdout' = Append(stdout, [type |-> "cudaerror", line |-> 232])
                   /\ exitCode' = 255
                   /\ pc' = "exited"
                   /\ cudaError' = FALSE
                   /\ s' = s
              ELSE /\ cudaError' = (cudaError \/ ~devOk)
                   /\ s' = 0
                   /\ pc' = "loop"
                   /\ UNCHANGED << stdout, exitCode >>
    /\ UNCHANGED << inputVars, selectVars, cpuFrees, gpuFrees, cpuOOB,
                    placeVars, kernelVars, simTime, files, launches >>

----------------------------------------------------------------------------
\* BEGIN SIMULATION

\* for( int s = 0; s < maxSteps; s++ ): the test succeeds. On the first
\* iteration srand() and initializePoints() begin, otherwise the kernel is next.
LoopEnter ==
    /\ pc = "loop"
    /\ s < maxSteps
    /\ IF s = 0
         THEN /\ pc' = "place"
              /\ placeR' = 0
              /\ placeTheta' = 0
              /\ placeI' = 0
         ELSE /\ pc' = "launch"
              /\ UNCHANGED placeVars
    /\ UNCHANGED << inputVars, exitCode, selectVars, allocVars, cpuPointArray,
                    gpuPointArray, cpuOOB, s, kernelVars, cudaError, faults, simTime,
                    outVars, launches >>

\* r <= plotBoundary with r = j * plotBoundary / sqrt(N), and likewise
\* theta <= 2 * pi with theta = j * 2 * pi / sqrt(N): j <= sqrt(N).
InSweep(j, N) == j * j <= N

\* if( i > N ) continue;
PlaceGuard(i, N) == i > N

\* The body of the inner loop of initializePoints when the guard lets it
\* through: p[i].x, p[i].y are written and i++; then theta += dTheta. When
\* malloc returned NULL the write is to address 0 and the process is killed
\* (SIGSEGV, status 139).
PlaceWrite ==
    /\ pc = "place"
    /\ InSweep(placeR, numPoints)
    /\ InSweep(placeTheta, numPoints)
    /\ ~PlaceGuard(placeI, numPoints)
    /\ IF cpuAlloc # "live"
         THEN /\ pc' = "exited"
              /\ exitCode' = 139
              /\ UNCHANGED << cpuPointArray, cpuOOB, placeI, placeTheta >>
         ELSE /\ IF placeI \in DOMAIN cpuPointArray
                   THEN /\ cpuPointArray' = [cpuPointArray EXCEPT ![placeI] =
                              [@ EXCEPT !.r = placeR, !.theta = placeTheta]]
                        /\ cpuOOB' = cpuOOB
                   ELSE /\ cpuOOB' = cpuOOB \cup {placeI}
                        /\ cpuPointArray' = cpuPointArray
              /\ placeI' = placeI + 1
              /\ placeTheta' = placeTheta + 1
              /\ UNCHANGED << pc, exitCode >>
    /\ UNCHANGED << inputVars, selectVars, allocVars, gpuPointArray,
                    s, placeR, kernelVars, cudaError, faults, simTime, outVars, launches >>

\* The guard holds: continue; then theta += dTheta.
PlaceSkip ==
    /\ pc = "place"
    /\ InSweep(placeR, numPoints)
    /\ InSweep(placeTheta, numPoints)
    /\ PlaceGuard(placeI, numPoints)
    /\ placeTheta' = placeTheta + 1
    /\ UNCHANGED << inputVars, pc, exitCode, selectVars, allocVars, cpuPointArray,
                    gpuPointArray, cpuOOB, s, placeR, placeI, kernelVars, cudaError, faults,
                    simTime, outVars, launches >>

\* The inner loop ends: r += dR and theta starts again at 0.
PlaceNextR ==
    /\ pc = "place"
    /\ InSweep(placeR, numPoints)
    /\ ~InSweep(placeTheta, numPoints)
    /\ placeR' = placeR + 1
    /\ placeTheta' = 0
    /\ UNCHANGED << inputVars, pc, exitCode, selectVars, allocVars, cpuPointArray,
                    gpuPointArray, cpuOOB, s, placeI, kernelVars, cudaError, faults, simTime,
                    outVars, launches >>

\* initializePoints returns; initializeDeviceConstants(); the host-to-device
\* cudaMemcpy (which may fail); the run header; check_cuda_errors.
FinishSetup ==
    /\ pc = "place"
    /\ ~InSweep(placeR, numPoints)
    /\ \E copied \in ArrayCopyOutcomes :
         /\ gpuPointArray' = IF copied THEN cpuPointArray ELSE gpuPointArray
         /\ faults' = Counted(copied)
         /\ LET error == cudaError \/ ~copied
                header == Append(stdout, [type |-> "header", numPoints |-> numPoints,
                                          maxSteps |-> maxSteps])
            IN  IF DEBUG /\ error   \* check_cuda_errors
                  THEN /\ stdout' = Append(header, [type |-> "cudaerror", line |-> 260])
                       /\ exitCode' = 255
                       /\ pc' = "exited"
                       /\ cudaError' = FALSE
                  ELSE /\ stdout' = header
                       /\ pc' = "launch"
                       /\ cudaError' = error
                       /\ exitCode' = exitCode
    /\ UNCHANGED << inputVars, selectVars, allocVars, cpuPointArray, cpuOOB, s,
                    placeVars, kernelVars, simTime, files, launches >>

----------------------------------------------------------------------------
\* DEVICE KERNELS

\* The threads of incrementPoint<<<numBlocks,threadsPerBlock>>>.
Threads == 0..(numBlocks * threadsPerBlock - 1)

\* incrementPoint<<<numBlocks,threadsPerBlock>>>( gpuPointArray, numPoints ):
\* every thread of every block starts, or the launch fails and none does.
Launch ==
    /\ pc = "launch"
    /\ launches' = launches + 1
    /\ \E launched \in Outcomes :
         /\ faults' = Counted(launched)
         /\ IF launched
              THEN /\ tpc' = [i \in Threads |-> "eval"]
                   /\ tsaw' = [i \in Threads |-> Indeterminate]
                   /\ treg' = [i \in Threads |-> Indeterminate]
                   /\ cudaError' = cudaError
              ELSE /\ tpc' = << >>
                   /\ tsaw' = << >>
                   /\ treg' = << >>
                   /\ cudaError' = TRUE
    /\ pc' = "sync"
    /\ UNCHANGED << inputVars, exitCode, selectVars, allocVars, cpuPointArray,
                    gpuPointArray, cpuOOB, gpuOOB, s, placeVars, t, simTime, outVars >>

\* The field value of a point at clock value time: the expression of
\* p[i].psi in alpha = r - c * t, kept as the clock value it was evaluated at.
Field(point, time) == time

\* alpha = r - c * t is exactly 0. c = w / k is positive, r = jr * dR is 0 or at
\* least dR, and c * t stays far below dR over the steps of the model: alpha
\* is 0 only for a point at the origin evaluated at t = 0.
SingularPhase(point, time) == point.r = 0 /\ time = 0

\* The kind of float that 2 * A * dk * sin( dk * alpha ) * cos( k * alpha ) /
\* ( dk * alpha ) has left in p[i].psi: at alpha = 0 the quotient is 0 / 0, a
\* not-a-number; the code has no case for it.
PsiClass(point) ==
    IF point.psi = Indeterminate THEN "unassigned"
    ELSE IF SingularPhase(point, point.psi) THEN "nan"
    ELSE "finite"

\* Thread i, up to the call of updateTime: i = getGlobalIndex(), r, alpha (a
\* read of t) and the write of p[i].psi. There is no test of i against
\* numPoints: a thread with i >= numPoints writes past the array.
ThreadEval(i) ==
    /\ i \in DOMAIN tpc
    /\ tpc[i] = "eval"
    /\ tsaw' = [tsaw EXCEPT ![i] = t]
    /\ IF i \in DOMAIN gpuPointArray
         THEN /\ gpuPointArray' = [gpuPointArray EXCEPT ![i] =
                    [@ EXCEPT !.psi = Field(@, t)]]
              /\ gpuOOB' = gpuOOB
         ELSE /\ gpuOOB' = gpuOOB \cup {i}
              /\ gpuPointArray' = gpuPointArray
    /\ tpc' = [tpc EXCEPT ![i] = "load"]
    /\ UNCHANGED << inputVars, pc, exitCode, selectVars, allocVars, cpuPointArray,
                    cpuOOB, s, placeVars, t, treg, cudaError, faults, simTime, outVars,
                    launches >>

\* updateTime(), t += dt: the load of t.
ThreadLoad(i) ==
    /\ i \in DOMAIN tpc
    /\ tpc[i] = "load"
    /\ treg' = [treg EXCEPT ![i] = t]
    /\ tpc' = [tpc EXCEPT ![i] = "store"]
    /\ UNCHANGED << inputVars, pc, exitCode, selectVars, allocVars, cpuPointArray,
                    gpuPointArray, cpuOOB, gpuOOB, s, placeVars, t, tsaw, cudaError, faults,
                    simTime, outVars, launches >>

\* The sum that t += dt stores, from the value it loaded.
Advance(loaded) == loaded + 1

\* updateTime(), t += dt: the store of the sum.
ThreadStore(i) ==
    /\ i \in DOMAIN tpc
    /\ tpc[i] = "store"
    /\ t' = Advance(treg[i])
    /\ tpc' = [tpc EXCEPT ![i] = "done"]
    /\ UNCHANGED << inputVars, pc, exitCode, selectVars, allocVars, cpuPointArray,
                    gpuPointArray, cpuOOB, gpuOOB, s, placeVars, tsaw, treg, cudaError, faults,
                    simTime, outVars, launches >>

\* A mutation of BatchDone: the copy does not wait for the kernel.
BatchNotAwaited == TRUE

\* No thread of the last launch is still running.
BatchDone == \A i \in DOMAIN tpc : tpc[i] = "done"

----------------------------------------------------------------------------
\* Retrieve results

\* cudaMemcpyFromSymbol( &simTime, t, sizeof( float ) ) waits for the kernel.
\* simTime is declared in the loop body without a value: a failed copy leaves
\* it unassigned.
ReadClock ==
    /\ pc = "sync"
    /\ BatchDone
    /\ \E copied \in Outcomes :
         /\ simTime' = IF copied THEN t ELSE Indeterminate
         /\ cudaError' = (cudaError \/ ~copied)
         /\ faults' = Counted(copied)
    /\ pc' = "copy"
    /\ UNCHANGED << inputVars, exitCode, selectVars, allocVars, cpuPointArray,
                    gpuPointArray, cpuOOB, s, placeVars, kernelVars, outVars, launches >>

\* cudaMemcpy( cpuPointArray, gpuPointArray, numBytes, cudaMemcpyDeviceToHost )
ReadArray ==
    /\ pc = "copy"
    /\ \E copied \in ArrayCopyOutcomes :
         /\ cpuPointArray' = IF copied THEN gpuPointArray ELSE cpuPointArray
         /\ cudaError' = (cudaError \/ ~copied)
         /\ faults' = Counted(copied)
    /\ pc' = "output"
    /\ UNCHANGED << inputVars, exitCode, selectVars, allocVars, gpuPointArray,
                    cpuOOB, s, placeVars, kernelVars, simTime, outVars, launches >>

\* A mutation of SaveStep: the last step of every period, not the first.
SaveStepLate(step, every) == (step + 1) % every = 0

\* if( s % saveSteps == 0 )
SaveStep(step, every) == step % every = 0

\* Output data every [saveSteps] steps: writeDataToFile when a path was given,
\* and the progress line; then s++.
Output ==
    /\ pc = "output"
    /\ IF SaveStep(s, saveSteps)
         THEN /\ files' = IF argc > 1
                            THEN Append(files, [name |-> simTime, data |-> cpuPointArray])
                            ELSE files
              /\ stdout' = Append(stdout, [type |-> "progress", step |-> s,
                                           simTime |-> simTime])
         ELSE UNCHANGED << files, stdout >>
    /\ s' = s + 1
    /\ pc' = "loop"
    /\ UNCHANGED << inputVars, exitCode, selectVars, allocVars, cpuPointArray,
                    gpuPointArray, cpuOOB, placeVars, kernelVars, cudaError, faults, simTime,
                    launches >>

----------------------------------------------------------------------------
\* Deallocate memory and exit.

\* The loop test fails: free( cpuPointArray ), which does nothing for NULL and
\* may abort (status 134) when the heap was written outside the block;
\* cudaFree, an error when cudaMalloc gave no array; check_cuda_errors;
\* "# Completed".
Deallocate ==
    /\ pc = "loop"
    /\ ~(s < maxSteps)
    /\ cpuAlloc' = IF cpuAlloc = "live" THEN "freed" ELSE cpuAlloc
    /\ cpuFrees' = IF cpuAlloc = "live" THEN cpuFrees + 1 ELSE cpuFrees
    /\ pc' = "exited"
    /\ \E heapIntact \in (IF cpuOOB = {} THEN {TRUE} ELSE BOOLEAN) :
         IF ~heapIntact
           THEN /\ exitCode' = 134
                /\ UNCHANGED << gpuAlloc, gpuFrees, stdout, cudaError >>
           ELSE /\ gpuAlloc' = IF gpuAlloc = "live" THEN "freed" ELSE gpuAlloc
                /\ gpuFrees' = IF gpuAlloc = "live" THEN gpuFrees + 1 ELSE gpuFrees
                /\ IF CheckFails \/ (DEBUG /\ gpuAlloc # "live")
                     THEN /\ stdout' = Append(stdout, [type |-> "cudaerror", line |-> 292])
                          /\ exitCode' = 255
                          /\ cudaError' = FALSE
                     ELSE /\ stdout' = Append(stdout, [type |-> "completed"])
                          /\ exitCode' = 0
                          /\ cudaError' = (cudaError \/ gpuAlloc # "live")
    /\ UNCHANGED << inputVars, selectVars, threadsPerBlock, numBlocks, cpuPointArray,
                    gpuPointArray, cpuOOB, s, placeVars, kernelVars, faults, simTime,
                    files, launches >>

----------------------------------------------------------------------------
Next ==
    \/ GetDeviceCount
    \/ SelectStep
    \/ BindDevice
    \/ Allocate
    \/ LoopEnter
    \/ PlaceWrite
    \/ PlaceSkip
    \/ PlaceNextR
    \/ FinishSetup
    \/ Launch
    \/ \E i \in Threads : ThreadEval(i)
    \/ \E i \in Threads : ThreadLoad(i)
    \/ \E i \in Threads : ThreadStore(i)
    \/ ReadClock
    \/ ReadArray
    \/ Output
    \/ Deallocate

Spec == Init /\ [][Next]_vars

\* The device selection alone: main() up to the end of SELECT DEVICE.
NextSelect ==
    \/ GetDeviceCount
    \/ SelectStep
    \/ BindDevice

SpecSelect == Init /\ [][NextSelect]_vars

----------------------------------------------------------------------------
\* Properties

\* main is between two steps, or past the last: s steps are complete.
BetweenSteps == pc = "loop"

\* C1: after s completed steps the clock equals s * dt, whatever numPoints,
\* the block size and the interleaving of the kernel threads (stated for the
\* runs in which no device operation fails and every thread has a point).
ClockEqualsSteps == (BetweenSteps /\ faults = 0 /\ gpuOOB = {}) => t = s

\* C2: within one step every two threads that have computed the field value
\* of their points read the same value of the clock (stated for the runs in
\* which no device operation fails).
SameTimeInStep ==
    faults = 0 =>
        \A i \in DOMAIN tpc \cap DOMAIN gpuPointArray :
            \A j \in DOMAIN tpc \cap DOMAIN gpuPointArray :
                (tpc[i] # "eval" /\ tpc[j] # "eval") => tsaw[i] = tsaw[j]

\* The progress records printed so far.
IsProgress(rec) == rec.type = "progress"
Progress == SelectSeq(stdout, IsProgress)

\* C3: a run that completes has printed a progress record exactly for the
\* steps 0, k, 2k, ... below maxSteps (k = saveSteps), ceil(maxSteps / k) of
\* them, and has written one snapshot file for each when a directory was
\* given, none otherwise.
SnapshotCadence ==
    exitCode = 0 =>
        /\ Len(Progress) = (maxSteps + saveSteps - 1) \div saveSteps
        /\ \A n \in 1..Len(Progress) : Progress[n].step = (n - 1) * saveSteps
        /\ Len(files) = IF argc > 1 THEN Len(Progress) ELSE 0
        /\ \A n \in 1..Len(files) : files[n].name = Progress[n].simTime

CadenceWitness ==
    /\ exitCode = 0
    /\ maxSteps = 3
    /\ saveSteps = 2
    /\ Len(files) = 2
    /\ Progress[2].step = 2

\* The selection loop has looked at every device.
SelectionDone ==
    \/ pc = "select" /\ device = deviceCount
    \/ pc \notin {"start", "select"} /\ deviceCount >= 1

\* C4: once every device has been looked at, useDevice is the first index
\* whose capability is the greatest of all devices, and cudaVersion is that
\* capability; useDevice is assigned.
FirstBestDevice ==
    SelectionDone =>
        /\ useDevice \in 0..(deviceCount - 1)
        /\ cudaVersion = computeCapability(devices[useDevice + 1])
        /\ \A d \in 0..(deviceCount - 1) :
              /\ computeCapability(devices[d + 1]) <= cudaVersion
              /\ d < useDevice => computeCapability(devices[d + 1]) < cudaVersion

\* Two devices share the greatest capability and the first was kept.
FirstBestWitness ==
    /\ pc = "alloc"
    /\ deviceCount = 2
    /\ computeCapability(devices[1]) = computeCapability(devices[2])
    /\ useDevice = 0

\* C5: after the selection the runtime is bound to the selected device, and
\* the device reported is the selected one.
BoundToSelected ==
    (pc \notin {"start", "select"} /\ deviceCount >= 1) =>
        /\ currentDevice = useDevice
        /\ device = useDevice

\* C6: with no device the process does nothing but print the diagnostic and
\* exit with status 1: no allocation, no copy, no dispatch, no header, no
\* snapshot.
NoDeviceNoExecution ==
    Len(devices) < 1 =>
        /\ pc \in {"start", "exited"}
        /\ pc = "exited" => exitCode = 1 /\ stdout = << [type |-> "nodevice"] >>
        /\ cpuAlloc = "none" /\ gpuAlloc = "none"
        /\ cpuPointArray = << >> /\ gpuPointArray = << >>
        /\ launches = 0 /\ tpc = << >> /\ t = 0
        /\ simTime = Indeterminate
        /\ files = << >>
        /\ cpuFrees = 0 /\ gpuFrees = 0

NoDeviceWitness == pc = "exited" /\ deviceCount = 0 /\ exitCode = 1

\* C7: initializePoints writes no position outside indices 0..numPoints-1.
PlacementInBounds == cpuOOB = {}

\* C8: with the field equal to the clock, after the step with index s every
\* point of the host copy holds (s + 1) * dt (stated for the runs in which no
\* device operation fails).
FieldSeesAdvancedClock ==
    (pc = "output" /\ faults = 0) =>
        \A i \in DOMAIN cpuPointArray : cpuPointArray[i].psi = s + 1

\* C9: in a debug build, once a device error is pending no further kernel is
\* dispatched and the run does not end with the completion record.
FailureStopsLoop ==
    [][(DEBUG /\ cudaError) =>
          /\ launches' = launches
          /\ stdout' # Append(stdout, [type |-> "completed"])]_vars

\* C10: when a snapshot is emitted no kernel thread is running and the host
\* copy handed to the emitter equals the device copy.
SnapshotFresh ==
    (pc = "output" /\ SaveStep(s, saveSteps)) =>
        /\ BatchDone
        /\ cpuPointArray = gpuPointArray

\* C11: the clock read after a step and the field value of every point do
\* not depend on the schedule of the kernel threads: in every run without a
\* failed device operation and with a point for every thread they are those
\* of the run whose threads execute one after another in index order.
ScheduleIndependent ==
    (pc = "output" /\ faults = 0 /\ gpuOOB = {}) =>
        /\ simTime = (s + 1) * numBlocks * threadsPerBlock
        /\ \A i \in DOMAIN cpuPointArray :
              cpuPointArray[i].psi = s * numBlocks * threadsPerBlock + i

\* C12: the field value written for a point whose phase alpha is 0 is the
\* finite limit 2 * A * dk * k, never a not-a-number.
OriginIsFinite ==
    \A i \in DOMAIN gpuPointArray : PsiClass(gpuPointArray[i]) # "nan"

\* C13: after a failed malloc or cudaMalloc the simulation loop is never
\* entered: main is at the loop test or has exited, and no kernel was
\* dispatched.
AllocationFailureAborts ==
    (cpuAlloc = "failed" \/ gpuAlloc = "failed") =>
        /\ pc \in {"loop", "exited"}
        /\ exitCode # 139
        /\ launches = 0

\* C14: no thread of a dispatch touches an index outside 0..numPoints-1
\* (stated for the runs in which no device operation fails).
KernelStaysInRange == faults = 0 => gpuOOB = {}

\* C15: the clock the host reads after a step exceeds the clock before that
\* step (0 before step 0, else the previous read) by m * dt with
\* 1 <= m <= numPoints (stated for the runs in which no device operation
\* fails).
RaceBoundedByPoints ==
    [][(pc = "sync" /\ pc' = "copy" /\ faults' = 0) =>
          (simTime' - (IF s = 0 THEN 0 ELSE simTime)) \in 1..numPoints]_vars

\* C16: a run with a device, without a failed allocation or device operation
\* ends in Completed: status 0 after exactly maxSteps dispatches, host and
\* device storage released once each, the completion record printed last.
CompletesCleanly ==
    (pc = "exited" /\ faults = 0 /\ deviceCount >= 1 /\ cpuAlloc # "failed") =>
        /\ exitCode = 0
        /\ launches = maxSteps
        /\ cpuFrees = 1 /\ gpuFrees = 1
        /\ stdout[Len(stdout)].type = "completed"

\* C17: kernel threads run only while main waits in the clock readback of
\* their own step: the readback, the device-to-host copy and the output of
\* step s come after the last thread of step s and before the dispatch of
\* step s + 1.
StepsDoNotOverlap ==
    /\ pc # "sync" => \A i \in DOMAIN tpc : tpc[i] = "done"
    /\ pc \in {"sync", "copy", "output"} => launches = s + 1
    /\ pc \in {"loop", "place", "launch"} => launches = s

\* Step 1 has been dispatched after step 0 was read back, and runs.
OverlapWitness ==
    /\ pc = "sync"
    /\ s = 1
    /\ launches = 2
    /\ \E i \in DOMAIN tpc : tpc[i] # "done"

\* The positions held in a copy of the ensemble.
Positions(array) == [i \in DOMAIN array |-> << array[i].r, array[i].theta >>]

\* C18: once the first kernel has been dispatched no step changes the x or y
\* of a point, in the host copy or in the device copy.
PositionsWriteOnce ==
    [][launches >= 1 =>
          /\ Positions(cpuPointArray') = Positions(cpuPointArray)
          /\ Positions(gpuPointArray') = Positions(gpuPointArray)]_vars

\* C19: in a debug build the clock value the host reads after a step s >= 1
\* is greater than the one it read after step s - 1.
HostClockIncreases ==
    [][(DEBUG /\ pc = "sync" /\ pc' = "copy" /\ s >= 1) => simTime' > simTime]_vars

\* C20: the simulation time recorded with a snapshot is the clock value at
\* which the field values of the snapshot were evaluated (stated for the
\* runs in which no device operation fails).
SnapshotTimeIsEvaluationTime ==
    (pc = "output" /\ SaveStep(s, saveSteps) /\ faults = 0) =>
        \A i \in DOMAIN cpuPointArray : cpuPointArray[i].psi = simTime

====
